---- MODULE Spec2Model ----
(***************************************************************************)
(* Model of the per-meeting fan-out core of backend/app.py: the registry   *)
(* meeting_clients guarded by meeting_lock, the connection handler         *)
(* ws_endpoint, broadcast_to_meeting, the ingestion paths ingest_endpoint  *)
(* and producer_loop, and debug_meetings.                                  *)
(*                                                                         *)
(* All coroutines run on one asyncio event loop.  A step of the model runs *)
(* one task from one suspension point (an await that really waits) to the  *)
(* next.  analyze_transcript_chunk is a plain synchronous call made from a *)
(* coroutine: while it runs the event loop runs nothing else.              *)
(***************************************************************************)
EXTENDS Integers, Sequences, FiniteSets, TLC

\* ---------------------------------------------------------------- bounds
NumConns == 2
NumIngests == 1
MaxChunks == 1
MaxTextLen == 1
MaxIdleIntervals == 2
NumTimedConns == 1
MaxContentLen == 3

\* ------------------------------------------------------- program constants
HEARTBEAT_TIMEOUT == 30

Conns == 1..NumConns
TimedConns == Conns \cap (1..NumTimedConns)
Ingests == 1..NumIngests
Producer == NumIngests + 1
Tasks == Ingests \cup {Producer}
MeetingIds == {"local-dev", "mtg-A"}
dev_mid == "local-dev"
Chars == {" ", "a"}
Whitespace == {" "}
Texts == UNION {[1..n -> Chars] : n \in 0..MaxTextLen}
\* the pieces a completion's message content is made of: whitespace, a character
\* that starts no JSON value, and the texts of a JSON object without
\* "questions", with a list under it, with a non-list under it, and of a JSON array
JsonObjects == {"{}", "{q:[]}", "{q:1}"}
JsonTexts == JsonObjects \cup {"[]"}
ContentChars == {" ", "x"} \cup JsonTexts
Contents == UNION {[1..n -> ContentChars] : n \in 0..MaxContentLen}
\* what client.chat.completions.create(...) does: it raises, or returns a
\* completion whose message content is None or a string
Upstream ==
    [outcome : {"call_failed", "no_content"}, content : {<<>>}]
        \cup [outcome : {"content"}, content : Contents]
\* one upstream outcome of each kind, for the ingestion paths
UpstreamOutcomes ==
    {[outcome |-> "call_failed", content |-> <<>>],
     [outcome |-> "no_content", content |-> <<>>],
     [outcome |-> "content", content |-> <<"{q:[]}">>],
     [outcome |-> "content", content |-> <<"[]">>],
     [outcome |-> "content", content |-> <<" ", "x">>]}
MaxIdle == MaxIdleIntervals * HEARTBEAT_TIMEOUT

VARIABLES
    meeting_clients,  \* dict meeting_id -> set of websockets
    meeting_lock,     \* set of tasks holding the asyncio.Lock (empty or one task)
    handler,          \* per connection: the ws_endpoint coroutine
    task,             \* per ingestion task: ingest_endpoint request or producer_loop
    blocked,          \* set of tasks inside the synchronous analysis call
    inbox,            \* per connection: messages whose send_text succeeded
    reaped,           \* connections whose send failed in a broadcast that has ended
    debug_result,     \* the last response of debug_meetings
    last_call         \* the last call of a stateless endpoint or gateway, with its outcome

vars == <<meeting_clients, meeting_lock, handler, task, blocked, inbox, reaped, debug_result, last_call>>

\* ------------------------------------------------------------ pure helpers

\* str.strip(): drop leading and trailing whitespace
RECURSIVE lstrip(_)
lstrip(s) == IF s # <<>> /\ Head(s) \in Whitespace THEN lstrip(Tail(s)) ELSE s

RECURSIVE rstrip(_)
rstrip(s) ==
    IF s # <<>> /\ s[Len(s)] \in Whitespace THEN rstrip(SubSeq(s, 1, Len(s) - 1)) ELSE s

strip(s) == rstrip(lstrip(s))

\* meeting_clients.get(meeting_id, set())
clients_of(mc, m) == IF m \in DOMAIN mc THEN mc[m] ELSE {}

\* meeting_clients.setdefault(meeting_id, set()).add(websocket)
join(mc, m, ws) ==
    IF m \in DOMAIN mc THEN [mc EXCEPT ![m] = @ \cup {ws}] ELSE mc @@ (m :> {ws})

leave_noprune(mc, m, ws) ==
    IF m \in DOMAIN mc THEN [mc EXCEPT ![m] = @ \ {ws}] ELSE mc

leave_drop_meeting(mc, m, ws) == [k \in DOMAIN mc \ {m} |-> mc[k]]

\* clients = get(meeting_id, set()); clients.discard(ws); if not clients: pop(meeting_id, None)
leave(mc, m, ws) ==
    LET clients == clients_of(mc, m) \ {ws}
    IN  IF clients = {}
        THEN [k \in DOMAIN mc \ {m} |-> mc[k]]
        ELSE [mc EXCEPT ![m] = clients]

list_clients_all(mc, m) == UNION {mc[k] : k \in DOMAIN mc}

\* list(meeting_clients.get(meeting_id, set())): the snapshot the for loop iterates
list_clients(mc, m) == clients_of(mc, m)

remove_dead_skip(mc, m, dead) == mc

remove_dead_create(mc, m, dead) ==
    IF m \in DOMAIN mc THEN [mc EXCEPT ![m] = @ \ dead] ELSE mc @@ (m :> {})

\* if dead_connections: for ws in dead_connections: meeting_clients[meeting_id].discard(ws)
remove_dead(mc, m, dead) ==
    IF dead # {} THEN [mc EXCEPT ![m] = @ \ dead] ELSE mc

\* the response of debug_meetings
debug_meetings(mc) ==
    [active_meetings |-> DOMAIN mc,
     connection_counts |-> [m \in DOMAIN mc |-> Cardinality(mc[m])]]

transcript_message(t) == [type |-> "transcript", text |-> t]
qna_message(q) == [type |-> "qna", data |-> q]

\* json.loads(s): whitespace around the one value is skipped; anything else raises
json_loads(s) ==
    IF Len(strip(s)) = 1 /\ strip(s)[1] \in JsonTexts THEN strip(s)[1] ELSE "JSONDecodeError"

\* analyze_transcript_chunk raises when the create call raises, and when the
\* content is None (None.strip()): both statements stand before the try block
analyze_raises(text, up) ==
    strip(text) # <<>> /\ up.outcome \in {"call_failed", "no_content"}

\* the dict analyze_transcript_chunk returns when it returns
analyze_transcript_chunk(text, up) ==
    LET content == strip(up.content)
        data == json_loads(content)
    IN  IF strip(text) = <<>>
        THEN [timestamp |-> "utcnow", questions |-> "empty", note |-> "SAFETY_NOTE"]
        ELSE IF data \in JsonObjects
        THEN [timestamp |-> "utcnow",
              questions |-> IF data = "{q:[]}" THEN "from_upstream" ELSE "empty",
              note |-> "SAFETY_NOTE"]
        ELSE \* JSONDecodeError, or TypeError on data["timestamp"] = ... of a non-dict
             [timestamp |-> "utcnow", questions |-> "empty", note |-> "SAFETY_NOTE",
              raw |-> content, parse_error |-> TRUE]

\* ------------------------------------------------------- OAuth callback
\* a query or form parameter that is not there (dict.get returns None)
None == "<None>"
Unreadable == "<unreadable>"
falsy(v) == v \in {None, ""}

\* what exchange_code_for_token meets: the three ZOOM_* settings, the outcome
\* of requests.post, and the status and body of Zoom's response
TokenEnvs ==
    [config : {"complete", "missing"},
     post : {"response", "RequestException", "other_exception"},
     status_code : {200, 400},
     body : {"token", "error_body", "not_json"}]

\* GET or POST /oauth/callback; form_code is Unreadable when request.form() raises
OAuthRequests ==
    [method : {"GET", "POST"},
     query_code : {None, "", "abc"},
     form_code : {Unreadable, None, "", "abc"},
     error : {None, "access_denied"},
     error_description : {"", "denied"},
     env : TokenEnvs]

\* resp.json(), or {"raw": resp.text} when the body is not JSON
response_payload(env) ==
    CASE env.body = "token" -> [access_token |-> "tok"]
      [] env.body = "error_body" -> [error |-> "invalid_grant", reason |-> "Invalid code"]
      [] OTHER -> [raw |-> "resp.text"]

\* an exception of requests.post that is no RequestException leaves the function
exchange_raises(env) == env.config = "complete" /\ env.post = "other_exception"

\* the dict exchange_code_for_token returns when it returns
exchange_code_for_token(code, env) ==
    IF env.config = "missing"
    THEN [status |-> 500, error |-> "missing_env", detail |-> "has_flags"]
    ELSE IF env.post = "RequestException"
    THEN [status |-> 502, error |-> "request_exception", detail |-> "str(e)"]
    ELSE IF env.status_code # 200
    THEN [status |-> env.status_code, zoom_error |-> response_payload(env)]
    ELSE response_payload(env)

\* code = query_params.get("code"); on POST without it, form.get("code") if the form parses
oauth_code(req) ==
    IF falsy(req.query_code) /\ req.method = "POST" /\ req.form_code # Unreadable
    THEN req.form_code
    ELSE req.query_code

JSONResponse(content, status_code, exchange_called) ==
    [content |-> content, status_code |-> status_code, exchange_called |-> exchange_called]

missing_code_response(req) ==
    IF ~falsy(req.error)
    THEN JSONResponse([stage |-> "authorize", error |-> req.error,
                       error_description |-> req.error_description], 400, FALSE)
    ELSE JSONResponse([error |-> "missing_code",
                       detail |-> "No authorization code provided"], 400, FALSE)

token_response(code, env) ==
    IF exchange_raises(env)
    THEN JSONResponse([error |-> "token_exchange_failed", detail |-> "str(e)"], 500, TRUE)
    ELSE LET token_payload == exchange_code_for_token(code, env)
         IN  IF "status" \in DOMAIN token_payload /\ token_payload.status # 200
             THEN JSONResponse(token_payload @@ [stage |-> "token"],
                               token_payload.status, TRUE)
             ELSE IF "error" \in DOMAIN token_payload
             THEN JSONResponse(token_payload @@ [stage |-> "zoom_api"], 400, TRUE)
             ELSE JSONResponse(token_payload, 200, TRUE)

oauth_callback_nocheck(req) == token_response(oauth_code(req), req.env)

\* the response of oauth_callback; exchange_called records the call at line 141
oauth_callback(req) ==
    IF falsy(oauth_code(req))
    THEN missing_code_response(req)
    ELSE token_response(oauth_code(req), req.env)

\* ------------------------------------------------------------------- Init
\* pc, meeting_id and timer (time since wait_for was armed) are the coroutine's
\* state; exit (why it left the loop), leaves (runs of the cleanup), idle (time
\* waited since the join or the last inbound message) and heartbeats (sent since
\* then) record its history.
InitHandler ==
    [pc |-> "CONNECTING", meeting_id |-> "none", exit |-> "none", leaves |-> 0,
     timer |-> 0, idle |-> 0, heartbeats |-> 0]

NoLocals ==
    [meeting_id |-> "none", text |-> <<>>, message |-> [type |-> "none"],
     snapshot |-> {}, todo |-> {}, cur |-> {}, dead_connections |-> {},
     attempts |-> [c \in Conns |-> 0], first_snapshot |-> {}]

InitTask(i) ==
    [pc |-> IF i = Producer THEN "polling" ELSE "idle", chunk |-> 0, response |-> "none"]
    @@ NoLocals

\* the coroutine's frame is gone: only its position, chunk count and response stay
Ended(tk, pc, response) ==
    [pc |-> pc, chunk |-> tk.chunk, response |-> response] @@ NoLocals

Init ==
    /\ meeting_clients = [m \in {} |-> {}]
    /\ meeting_lock = {}
    /\ handler = [c \in Conns |-> InitHandler]
    /\ task = [i \in Tasks |-> InitTask(i)]
    /\ blocked = {}
    /\ inbox = [c \in Conns |-> <<>>]
    /\ reaped = {}
    /\ debug_result = debug_meetings([m \in {} |-> {}])
    /\ last_call = [fn |-> "none"]

LoopFree == blocked = {}
LockFree == meeting_lock = {}

\* ----------------------------------------------------- connection handler

\* await websocket.accept()
Accept(c, m) ==
    /\ LoopFree
    /\ handler[c].pc = "CONNECTING"
    /\ handler' = [handler EXCEPT ![c].pc = "JOINING", ![c].meeting_id = m]
    /\ UNCHANGED <<meeting_clients, meeting_lock, task, blocked, inbox, reaped, debug_result, last_call>>

Join_nolock(c) ==
    /\ LoopFree
    /\ handler[c].pc = "JOINING"
    /\ meeting_clients' = join(meeting_clients, handler[c].meeting_id, c)
    /\ handler' = [handler EXCEPT ![c].pc = "OPEN", ![c].timer = 0]
    /\ UNCHANGED <<meeting_lock, task, blocked, inbox, reaped, debug_result, last_call>>

\* async with meeting_lock: setdefault(...).add(websocket); then the first wait_for
Join(c) ==
    /\ LoopFree /\ LockFree
    /\ handler[c].pc = "JOINING"
    /\ meeting_clients' = join(meeting_clients, handler[c].meeting_id, c)
    /\ handler' = [handler EXCEPT ![c].pc = "OPEN", ![c].timer = 0]
    /\ UNCHANGED <<meeting_lock, task, blocked, inbox, reaped, debug_result, last_call>>

\* receive_text() returned within the timeout: the text is dropped, the wait re-armed
Receive(c) ==
    /\ LoopFree
    /\ handler[c].pc = "OPEN"
    /\ handler' = [handler EXCEPT ![c].timer = 0, ![c].idle = 0, ![c].heartbeats = 0]
    /\ UNCHANGED <<meeting_clients, meeting_lock, task, blocked, inbox, reaped, debug_result, last_call>>

\* wait_for raised TimeoutError: start send_text of the heartbeat
RecvTimeout(c) ==
    /\ LoopFree
    /\ handler[c].pc = "OPEN"
    /\ handler[c].timer = HEARTBEAT_TIMEOUT
    /\ handler' = [handler EXCEPT ![c].pc = "HEARTBEAT", ![c].heartbeats = @ + 1]
    /\ UNCHANGED <<meeting_clients, meeting_lock, task, blocked, inbox, reaped, debug_result, last_call>>

HeartbeatSent_burst(c) ==
    /\ LoopFree
    /\ handler[c].pc = "HEARTBEAT"
    /\ handler' = [handler EXCEPT ![c].pc = "OPEN"]
    /\ UNCHANGED <<meeting_clients, meeting_lock, task, blocked, inbox, reaped, debug_result, last_call>>

HeartbeatSent_rejoin(c) ==
    /\ LoopFree
    /\ handler[c].pc = "HEARTBEAT"
    /\ meeting_clients' = join(meeting_clients, handler[c].meeting_id, c)
    /\ handler' = [handler EXCEPT ![c].pc = "OPEN", ![c].timer = 0]
    /\ UNCHANGED <<meeting_lock, task, blocked, inbox, reaped, debug_result, last_call>>

\* the heartbeat send_text returned: back to wait_for with a fresh timeout
HeartbeatSent(c) ==
    /\ LoopFree
    /\ handler[c].pc = "HEARTBEAT"
    /\ handler' = [handler EXCEPT ![c].pc = "OPEN", ![c].timer = 0]
    /\ UNCHANGED <<meeting_clients, meeting_lock, task, blocked, inbox, reaped, debug_result, last_call>>

\* leaving the try block: the finally clause now waits for meeting_lock
closing(h, cause) == [h EXCEPT !.pc = "CLOSING", !.exit = cause]

\* the heartbeat send_text raised
HeartbeatFailed(c) ==
    /\ LoopFree
    /\ handler[c].pc = "HEARTBEAT"
    /\ handler' = [handler EXCEPT ![c] = closing(@, "send_error")]
    /\ UNCHANGED <<meeting_clients, meeting_lock, task, blocked, inbox, reaped, debug_result, last_call>>

\* receive_text raised WebSocketDisconnect
Disconnect(c) ==
    /\ LoopFree
    /\ handler[c].pc = "OPEN"
    /\ handler' = [handler EXCEPT ![c] = closing(@, "disconnect")]
    /\ UNCHANGED <<meeting_clients, meeting_lock, task, blocked, inbox, reaped, debug_result, last_call>>

\* receive_text raised another Exception
RecvError(c) ==
    /\ LoopFree
    /\ handler[c].pc = "OPEN"
    /\ handler' = [handler EXCEPT ![c] = closing(@, "error")]
    /\ UNCHANGED <<meeting_clients, meeting_lock, task, blocked, inbox, reaped, debug_result, last_call>>

\* the handler task was cancelled at one of its awaits (CancelledError)
Cancel(c) ==
    /\ LoopFree
    /\ handler[c].pc \in {"OPEN", "HEARTBEAT"}
    /\ handler' = [handler EXCEPT ![c] = closing(@, "cancelled")]
    /\ UNCHANGED <<meeting_clients, meeting_lock, task, blocked, inbox, reaped, debug_result, last_call>>

Leave_twice(c) ==
    /\ LoopFree /\ LockFree
    /\ handler[c].pc \in {"CLOSING", "CLOSED"}
    /\ handler[c].leaves < 2
    /\ meeting_clients' = leave(meeting_clients, handler[c].meeting_id, c)
    /\ handler' = [handler EXCEPT ![c].pc = "CLOSED", ![c].leaves = @ + 1]
    /\ UNCHANGED <<meeting_lock, task, blocked, inbox, reaped, debug_result, last_call>>

Leave_nolock(c) ==
    /\ LoopFree
    /\ handler[c].pc = "CLOSING"
    /\ meeting_clients' = leave(meeting_clients, handler[c].meeting_id, c)
    /\ handler' = [handler EXCEPT ![c].pc = "CLOSED", ![c].leaves = @ + 1]
    /\ UNCHANGED <<meeting_lock, task, blocked, inbox, reaped, debug_result, last_call>>

\* finally: async with meeting_lock: discard, prune
Leave(c) ==
    /\ LoopFree /\ LockFree
    /\ handler[c].pc = "CLOSING"
    /\ meeting_clients' = leave(meeting_clients, handler[c].meeting_id, c)
    /\ handler' = [handler EXCEPT ![c].pc = "CLOSED", ![c].leaves = @ + 1]
    /\ UNCHANGED <<meeting_lock, task, blocked, inbox, reaped, debug_result, last_call>>

Waiting(c) == handler[c].pc = "OPEN"

\* one time unit passes for every handler inside wait_for; a due timeout is
\* handled before more time passes
Tick ==
    /\ LoopFree
    /\ \E c \in Conns : Waiting(c)
    /\ \A c \in Conns : Waiting(c) =>
          handler[c].timer < HEARTBEAT_TIMEOUT /\ handler[c].idle < MaxIdle
    /\ handler' = [c \in Conns |->
          IF Waiting(c)
          THEN [handler[c] EXCEPT !.timer = @ + 1, !.idle = @ + 1]
          ELSE handler[c]]
    /\ UNCHANGED <<meeting_clients, meeting_lock, task, blocked, inbox, reaped, debug_result, last_call>>

\* the rest of c's timeout passes with no inbound message
Elapse(c) ==
    /\ LoopFree
    /\ Waiting(c)
    /\ handler[c].timer < HEARTBEAT_TIMEOUT
    /\ handler[c].idle + (HEARTBEAT_TIMEOUT - handler[c].timer) <= MaxIdle
    /\ handler' = [handler EXCEPT
          ![c].idle = @ + (HEARTBEAT_TIMEOUT - handler[c].timer),
          ![c].timer = HEARTBEAT_TIMEOUT]
    /\ UNCHANGED <<meeting_clients, meeting_lock, task, blocked, inbox, reaped, debug_result, last_call>>

\* ------------------------------------------------------------ diagnostics
DebugMeetings ==
    /\ LoopFree /\ LockFree
    /\ debug_result' = debug_meetings(meeting_clients)
    /\ UNCHANGED <<meeting_clients, meeting_lock, handler, task, blocked, inbox, reaped, last_call>>

HandlerStep(c) ==
    \/ \E m \in MeetingIds : Accept(c, m)
    \/ Join(c)
    \/ Receive(c)
    \/ RecvTimeout(c)
    \/ HeartbeatSent(c)
    \/ HeartbeatFailed(c)
    \/ Disconnect(c)
    \/ RecvError(c)
    \/ Cancel(c)
    \/ Leave(c)

\* joins and leaves alone: no broadcast, no heartbeat
NextRegistry ==
    \/ \E c \in Conns :
          \/ \E m \in MeetingIds : Accept(c, m)
          \/ Join(c)
          \/ Disconnect(c)
          \/ RecvError(c)
          \/ Cancel(c)
          \/ Leave(c)
    \/ DebugMeetings

SpecRegistry == Init /\ [][NextRegistry]_vars

\* the handlers of one meeting against a clock that advances by single units
NextHeartbeat ==
    \/ \E c \in TimedConns :
          \/ Accept(c, dev_mid)
          \/ Join(c)
          \/ Receive(c)
          \/ RecvTimeout(c)
          \/ HeartbeatSent(c)
          \/ HeartbeatFailed(c)
          \/ Disconnect(c)
          \/ Leave(c)
    \/ Tick

SpecHeartbeat == Init /\ [][NextHeartbeat]_vars

\* -------------------------------------------------------------- ingestion

\* what follows a finished broadcast_to_meeting call in its caller
Continue(i, tk) ==
    IF tk.pc \in {"transcript_wait", "transcript_send"}
    THEN \* qna = analyze_transcript_chunk(text): synchronous, the loop is held
         /\ task' = [task EXCEPT ![i] = [tk EXCEPT !.pc = "analyzing"]]
         /\ blocked' = {i}
    ELSE \* return JSONResponse({"ok": True}) / next iteration of the while loop
         /\ task' = [task EXCEPT ![i] =
               IF i = Producer THEN Ended(tk, "polling", tk.response)
                               ELSE Ended(tk, "done", "ok")]
         /\ blocked' = blocked

\* the for loop is over: apply the removals, release the lock, return
Finish(i, tk) ==
    /\ meeting_lock' = {}
    /\ reaped' = reaped \cup tk.dead_connections
    /\ IF tk.dead_connections # {} /\ tk.meeting_id \notin DOMAIN meeting_clients
       THEN \* meeting_clients[meeting_id] raises KeyError out of the caller
            /\ meeting_clients' = meeting_clients
            /\ task' = [task EXCEPT ![i] = Ended(tk, "broadcast_raised", "error")]
            /\ blocked' = blocked
       ELSE /\ meeting_clients' =
                  remove_dead(meeting_clients, tk.meeting_id, tk.dead_connections)
            /\ Continue(i, [tk EXCEPT !.cur = {}])

\* the next await ws.send_text(text) of the for loop, or the end of the loop
Proceed(i, tk) ==
    IF tk.todo # {}
    THEN /\ \E ws \in tk.todo :
               task' = [task EXCEPT ![i] = [tk EXCEPT !.cur = {ws}, !.todo = @ \ {ws}]]
         /\ UNCHANGED <<meeting_clients, meeting_lock, blocked, reaped>>
    ELSE Finish(i, tk)

IngestRequest_noskip(i, m, t) ==
    /\ LoopFree
    /\ i \in Ingests
    /\ task[i].pc = "idle"
    /\ task' = [task EXCEPT ![i].pc = "transcript_wait", ![i].meeting_id = m,
                            ![i].text = t, ![i].message = transcript_message(t),
                            ![i].chunk = 1]
    /\ UNCHANGED <<meeting_clients, meeting_lock, handler, blocked, inbox, reaped, debug_result, last_call>>

\* POST /ingest
IngestRequest(i, m, t) ==
    /\ LoopFree
    /\ i \in Ingests
    /\ task[i].pc = "idle"
    /\ IF strip(t) = <<>>
       THEN task' = [task EXCEPT ![i].pc = "skipped", ![i].response = "skipped",
                                 ![i].text = t]
       ELSE task' = [task EXCEPT ![i].pc = "transcript_wait", ![i].meeting_id = m,
                                 ![i].text = t, ![i].message = transcript_message(t),
                                 ![i].chunk = 1]
    /\ UNCHANGED <<meeting_clients, meeting_lock, handler, blocked, inbox, reaped, debug_result, last_call>>

\* producer_loop: sleep, then text = asr_source.get_chunk_text_if_ready()
ProducerPoll(t) ==
    /\ LoopFree
    /\ task[Producer].pc = "polling"
    /\ task[Producer].chunk < MaxChunks
    /\ IF strip(t) = <<>>
       THEN task' = task
       ELSE task' = [task EXCEPT ![Producer].pc = "transcript_wait",
                                 ![Producer].meeting_id = dev_mid,
                                 ![Producer].text = strip(t),
                                 ![Producer].message = transcript_message(strip(t)),
                                 ![Producer].chunk = @ + 1]
    /\ UNCHANGED <<meeting_clients, meeting_lock, handler, blocked, inbox, reaped, debug_result, last_call>>

\* broadcast_to_meeting: async with meeting_lock, the snapshot, the first send
BroadcastBegin(i) ==
    /\ LoopFree /\ LockFree
    /\ task[i].pc \in {"transcript_wait", "qna_wait"}
    /\ LET snap == list_clients(meeting_clients, task[i].meeting_id)
           tk == [task[i] EXCEPT
                    !.pc = IF @ = "transcript_wait" THEN "transcript_send" ELSE "qna_send",
                    !.snapshot = snap, !.todo = snap, !.cur = {},
                    !.dead_connections = {}, !.attempts = [c \in Conns |-> 0],
                    !.first_snapshot = IF task[i].pc = "transcript_wait" THEN snap ELSE @]
       IN  IF snap = {}
           THEN Finish(i, tk)
           ELSE /\ \E ws \in snap :
                      task' = [task EXCEPT ![i] = [tk EXCEPT !.cur = {ws}, !.todo = @ \ {ws}]]
                /\ meeting_lock' = {i}
                /\ UNCHANGED <<meeting_clients, blocked, reaped>>
    /\ UNCHANGED <<handler, inbox, debug_result, last_call>>

Sending(i) == task[i].pc \in {"transcript_send", "qna_send"} /\ task[i].cur # {}

\* await ws.send_text(text) returned
SendOk(i) ==
    /\ LoopFree
    /\ Sending(i)
    /\ \E ws \in task[i].cur :
          /\ inbox' = [inbox EXCEPT ![ws] = Append(@,
                [src |-> i, chunk |-> task[i].chunk, msg |-> task[i].message])]
          /\ Proceed(i, [task[i] EXCEPT !.attempts[ws] = @ + 1])
    /\ UNCHANGED <<handler, debug_result, last_call>>

SendFail_abort(i) ==
    /\ LoopFree
    /\ Sending(i)
    /\ \E ws \in task[i].cur :
          Finish(i, [task[i] EXCEPT !.attempts[ws] = @ + 1, !.todo = {},
                                    !.dead_connections = @ \cup {ws}])
    /\ UNCHANGED <<handler, inbox, debug_result, last_call>>

\* await ws.send_text(text) raised: except Exception: dead_connections.add(ws)
SendFail(i) ==
    /\ LoopFree
    /\ Sending(i)
    /\ \E ws \in task[i].cur :
          Proceed(i, [task[i] EXCEPT !.attempts[ws] = @ + 1,
                                     !.dead_connections = @ \cup {ws}])
    /\ UNCHANGED <<handler, inbox, debug_result, last_call>>

\* analyze_transcript_chunk returned or raised
AnalysisReturn(i, up) ==
    /\ i \in blocked
    /\ task[i].pc = "analyzing"
    /\ blocked' = {}
    /\ IF analyze_raises(task[i].text, up)
       THEN task' = [task EXCEPT ![i] = Ended(task[i], "failed", "error")]
       ELSE task' = [task EXCEPT ![i].pc = "qna_wait",
                        ![i].message = qna_message(analyze_transcript_chunk(task[i].text, up))]
    /\ UNCHANGED <<meeting_clients, meeting_lock, handler, inbox, reaped, debug_result, last_call>>

TaskStep(i) ==
    \/ \E m \in MeetingIds, t \in Texts : IngestRequest(i, m, t)
    \/ BroadcastBegin(i)
    \/ SendOk(i)
    \/ SendFail(i)
    \/ \E up \in UpstreamOutcomes : AnalysisReturn(i, up)

\* the registry under connection handlers, HTTP ingestion and diagnostics
Next ==
    \/ \E c \in Conns : HandlerStep(c)
    \/ \E c \in Conns : Elapse(c)
    \/ \E i \in Ingests : TaskStep(i)
    \/ DebugMeetings

Spec == Init /\ [][Next]_vars

\* both ingestion paths side by side, over connections that only join and leave
NextIngest ==
    \/ \E c \in Conns :
          \/ \E m \in MeetingIds : Accept(c, m)
          \/ Join(c)
          \/ Disconnect(c)
          \/ Leave(c)
    \/ \E i \in Tasks : TaskStep(i)
    \/ \E t \in Texts : ProducerPoll(t)

SpecIngest == Init /\ [][NextIngest]_vars

\* ------------------------------------------------- stateless entry points
\* the calls to answer: one request to /oauth/callback, or one call
\* analyze_transcript_chunk(text) against one upstream behaviour
Calls ==
    [fn : {"oauth_callback"}, request : OAuthRequests]
        \cup [fn : {"analyze_transcript_chunk"}, text : Texts, upstream : Upstream]

InitGateway ==
    /\ meeting_clients = [m \in {} |-> {}]
    /\ meeting_lock = {}
    /\ handler = [c \in Conns |-> InitHandler]
    /\ task = [i \in Tasks |-> InitTask(i)]
    /\ blocked = {}
    /\ inbox = [c \in Conns |-> <<>>]
    /\ reaped = {}
    /\ debug_result = debug_meetings([m \in {} |-> {}])
    /\ last_call \in Calls

\* GET/POST /oauth/callback
OAuthCallback ==
    /\ LoopFree
    /\ last_call.fn = "oauth_callback"
    /\ "response" \notin DOMAIN last_call
    /\ last_call' = [fn |-> "oauth_callback", request |-> last_call.request,
                     response |-> oauth_callback(last_call.request)]
    /\ UNCHANGED <<meeting_clients, meeting_lock, handler, task, blocked, inbox, reaped,
                   debug_result>>

\* analyze_transcript_chunk(text) returns or raises
AnalyzeCall ==
    /\ last_call.fn = "analyze_transcript_chunk"
    /\ "result" \notin DOMAIN last_call
    /\ LET text == last_call.text
           up == last_call.upstream
       IN  last_call' =
             [fn |-> "analyze_transcript_chunk", text |-> text, upstream |-> up,
              raised |-> analyze_raises(text, up),
              result |-> IF analyze_raises(text, up)
                         THEN [exception |-> up.outcome]
                         ELSE analyze_transcript_chunk(text, up)]
    /\ UNCHANGED <<meeting_clients, meeting_lock, handler, task, blocked, inbox, reaped,
                   debug_result>>

NextGateway == OAuthCallback \/ AnalyzeCall

SpecGateway == InitGateway /\ [][NextGateway]_vars

\* connections that join and close while HTTP ingestions broadcast
NextFanout ==
    \/ \E c \in Conns :
          \/ \E m \in MeetingIds : Accept(c, m)
          \/ Join(c)
          \/ Disconnect(c)
          \/ Leave(c)
    \/ \E i \in Ingests : TaskStep(i)

\* the event loop resumes every task that is ready to run: a coroutine waiting
\* for meeting_lock gets it once it stays free, and the analysis call returns or
\* raises.  When a send_text completes is up to the peer and the network:
\* nothing in broadcast_to_meeting bounds it, so no fairness is stated for it.
FairScheduling ==
    /\ \A c \in Conns : WF_vars(Join(c)) /\ WF_vars(Leave(c))
    /\ \A i \in Ingests :
          /\ WF_vars(BroadcastBegin(i))
          /\ WF_vars(\E up \in UpstreamOutcomes : AnalysisReturn(i, up))

SpecFanout == Init /\ [][NextFanout]_vars /\ FairScheduling

\* ================================================================= claims

\* connections that have joined and whose leave has not run
Joined(m) ==
    {c \in Conns : handler[c].meeting_id = m /\ handler[c].pc \in {"OPEN", "HEARTBEAT", "CLOSING"}}

\* C1: under joins and leaves alone, after every operation a meeting id is a
\* key of meeting_clients exactly when some connection is registered under it,
\* and the key then maps to exactly those connections, so never to an empty set.
C1_KeyIffNonEmpty ==
    \A m \in MeetingIds :
        /\ (m \in DOMAIN meeting_clients) <=> (Joined(m) # {})
        /\ m \in DOMAIN meeting_clients => meeting_clients[m] = Joined(m)

\* the last member of a meeting has left and the key is gone, another meeting is live
C1_Witness ==
    \E c \in Conns, d \in Conns :
        /\ handler[c].pc = "CLOSED"
        /\ handler[c].meeting_id \notin DOMAIN meeting_clients
        /\ handler[d].pc = "OPEN"
        /\ handler[d].meeting_id \in DOMAIN meeting_clients

\* C2: whenever no task holds meeting_lock, no meeting id maps to an empty
\* connection set, and debug_meetings has never reported a count of 0.
C2_NoEmptySetWhenUnlocked ==
    /\ LockFree => \A m \in DOMAIN meeting_clients : meeting_clients[m] # {}
    /\ \A m \in debug_result.active_meetings : debug_result.connection_counts[m] # 0

\* C3: a send in flight inside broadcast_to_meeting(B, msg) goes to a connection
\* whose handler joined under B; no connection registered under A # B is sent to.
C3_NoCrossMeetingSend ==
    \A i \in Tasks : \A c \in task[i].cur :
        /\ handler[c].meeting_id = task[i].meeting_id
        /\ \A A \in DOMAIN meeting_clients :
              c \in meeting_clients[A] => A = task[i].meeting_id

\* a broadcast is sending in one meeting while a connection is registered in another
C3_Witness ==
    \E i \in Tasks : \E c \in task[i].cur : \E A \in DOMAIN meeting_clients :
        /\ A # task[i].meeting_id
        /\ meeting_clients[A] # {}
        /\ c \in clients_of(meeting_clients, task[i].meeting_id)

\* connections debug_meetings should count under m: joined, not left, no failed send
Live(m) == Joined(m) \ reaped

\* C4: once a broadcast in which the send to c failed has returned, c is in no
\* meeting's set, and a debug_meetings call made in any later state counts under
\* each meeting only the joined connections that had no failed send.
C4_FailedSendNotCounted ==
    /\ \A c \in reaped : \A m \in DOMAIN meeting_clients : c \notin meeting_clients[m]
    /\ LockFree => \A m \in DOMAIN meeting_clients :
          debug_meetings(meeting_clients).connection_counts[m] = Cardinality(Live(m))

\* debug_meetings has answered after a failed send, with the handler still open
\* and a sibling still counted
C4_Witness ==
    \E c \in reaped :
        /\ handler[c].pc = "OPEN"
        /\ LockFree
        /\ debug_result = debug_meetings(meeting_clients)
        /\ handler[c].meeting_id \in debug_result.active_meetings
        /\ debug_result.connection_counts[handler[c].meeting_id] = 1

\* C5: broadcast_to_meeting attempts one send per member of its snapshot: while
\* it runs, the members already passed have one attempt each and the others
\* none; when it has returned (the caller is at the analysis call) every member
\* has exactly one attempt, whichever sends failed; and the call never raises.
C5_OneAttemptEach ==
    \A i \in Tasks :
        LET tk == task[i]
            pending == tk.todo \cup tk.cur
        IN  /\ tk.pc # "broadcast_raised"
            /\ pending \subseteq tk.snapshot
            /\ tk.dead_connections \subseteq tk.snapshot \ pending
            /\ \A c \in Conns :
                  tk.attempts[c] = IF c \in tk.snapshot \ pending THEN 1 ELSE 0
            /\ tk.pc = "analyzing" => pending = {}

\* a broadcast has returned after one member's send failed and a sibling's did not
C5_Witness ==
    \E i \in Tasks :
        /\ task[i].pc = "analyzing"
        /\ task[i].dead_connections # {}
        /\ task[i].snapshot \ task[i].dead_connections # {}

RECURSIVE chunk_messages(_, _, _)
chunk_messages(log, i, k) ==
    IF log = <<>> THEN <<>>
    ELSE IF Head(log).src = i /\ Head(log).chunk = k
         THEN <<Head(log).msg.type>> \o chunk_messages(Tail(log), i, k)
         ELSE chunk_messages(Tail(log), i, k)

IngestionEnds(i) ==
    /\ task[i].pc \in {"transcript_send", "analyzing", "qna_wait", "qna_send"}
    /\ task'[i].pc \in {"done", "failed", "polling", "broadcast_raised"}

\* C7: when an ingestion of non-blank text ends, every connection that was
\* registered under its meeting from the transcript snapshot to the end has
\* received, for this chunk, one transcript message and then one qna message.
C7_TranscriptThenQna ==
    [][\A i \in Tasks : IngestionEnds(i) =>
          \A c \in task[i].first_snapshot \cap
                   clients_of(meeting_clients', task[i].meeting_id) :
              chunk_messages(inbox'[c], i, task[i].chunk) = <<"transcript", "qna">>]_vars

\* C8: while one ingestion is inside the analysis call, an ingestion for
\* another meeting that is about to broadcast its transcript can do so.
C8_OtherMeetingNotBlocked ==
    \A i \in Tasks, j \in Tasks :
        (/\ task[i].pc = "analyzing"
         /\ task[j].pc = "transcript_wait"
         /\ task[j].meeting_id # task[i].meeting_id
         /\ LockFree)
        => ENABLED BroadcastBegin(j)

\* the sends in flight to c: those of broadcasts, and the handler's heartbeat
BroadcastSends(c) == {i \in Tasks : c \in task[i].cur}
HeartbeatSends(c) == IF handler[c].pc = "HEARTBEAT" THEN {c} ELSE {}

\* C9: sends are serialised by meeting_lock: a broadcast's send in flight belongs
\* to the lock holder, and counting the handler's heartbeat as well, at most one
\* send to a connection is in flight at a time.
C9_SendsOnlyUnderLock ==
    \A c \in Conns :
        /\ BroadcastSends(c) \subseteq meeting_lock
        /\ Cardinality(BroadcastSends(c)) + Cardinality(HeartbeatSends(c)) <= 1

\* C10: with idle the time a handler has waited since it joined or last got an
\* inbound message, and heartbeats the heartbeats it sent since then, there is
\* one heartbeat per full HEARTBEAT_TIMEOUT of idle time: an inbound message
\* restarts the wait and the count without a heartbeat.
C10_OneHeartbeatPerInterval ==
    \A c \in Conns :
        /\ handler[c].pc = "OPEN" =>
              /\ handler[c].timer <= HEARTBEAT_TIMEOUT
              /\ handler[c].idle = handler[c].heartbeats * HEARTBEAT_TIMEOUT + handler[c].timer
        /\ handler[c].pc = "HEARTBEAT" =>
              /\ handler[c].heartbeats >= 1
              /\ handler[c].idle = handler[c].heartbeats * HEARTBEAT_TIMEOUT

\* a heartbeat was sent after each full idle interval and the wait is armed again
C10_Witness ==
    \E c \in Conns :
        /\ handler[c].pc = "OPEN"
        /\ handler[c].heartbeats = MaxIdleIntervals
        /\ handler[c].idle = MaxIdle
        /\ handler[c].timer = 0

\* C11: under fair scheduling of tasks, a handler that left its receive loop
\* (disconnect or error while OPEN) eventually completes its leave, also when a
\* concurrent broadcast's send is slow or never completes.
C11_ClosedEventuallyLeaves ==
    \A c \in Conns : (handler[c].pc = "CLOSING") ~> (handler[c].pc = "CLOSED")

\* C12: analyze_transcript_chunk returns a payload for every upstream outcome,
\* so no ingestion of non-blank text ends in an unhandled fault of the analysis
\* call: it goes on to its qna broadcast and its ok acknowledgment.
C12_IngestionNeverFaults ==
    \A i \in Tasks : task[i].pc # "failed"

Analyzed ==
    /\ last_call.fn = "analyze_transcript_chunk"
    /\ "result" \in DOMAIN last_call
    /\ strip(last_call.text) # <<>>

\* C13: for upstream content s that does not parse to a JSON object,
\* analyze_transcript_chunk returns parse_error = true, no questions, and raw
\* equal to s character for character, leading and trailing whitespace included.
C13_RawVerbatim ==
    (/\ Analyzed
     /\ last_call.upstream.outcome = "content"
     /\ json_loads(last_call.upstream.content) \notin JsonObjects)
    => /\ ~last_call.raised
       /\ last_call.result.parse_error
       /\ last_call.result.questions = "empty"
       /\ last_call.result.raw = last_call.upstream.content

\* C14: an ingestion request with empty or whitespace-only text is answered
\* {ok: true, skipped: true} in the step that receives it; that step changes
\* neither the registry nor the lock, delivers nothing and starts no analysis,
\* and the request does nothing afterwards.
C14_BlankIngestIsNoOp ==
    [][\A i \in Ingests :
          /\ (task[i].pc = "idle" /\ task'[i].pc # "idle" /\ strip(task'[i].text) = <<>>)
             => /\ task'[i].pc = "skipped" /\ task'[i].response = "skipped"
                /\ UNCHANGED <<meeting_clients, meeting_lock, inbox, blocked>>
          /\ task[i].pc = "skipped" => task'[i] = task[i]]_vars

\* whitespace-only text was ingested while a connection was registered
C14_Witness ==
    \E i \in Ingests, c \in Conns :
        /\ task[i].pc = "skipped"
        /\ task[i].text = <<" ">>
        /\ handler[c].pc = "OPEN"
        /\ c \in clients_of(meeting_clients, handler[c].meeting_id)
        /\ inbox[c] = <<>>

OAuthAnswered == last_call.fn = "oauth_callback" /\ "response" \in DOMAIN last_call
OAuthFailed == OAuthAnswered /\ last_call.response.status_code # 200

\* the fields of an error envelope that hold the upstream's or the endpoint's detail
DetailFields == {"error", "error_description", "detail", "zoom_error"}

\* C15: every failure response of the OAuth callback has a stage marker and a
\* status (a status field, or the error status of the response itself)
\* together with the error detail.
C15_FailureEnvelopeUniform ==
    OAuthFailed =>
        /\ "stage" \in DOMAIN last_call.response.content
        /\ \/ "status" \in DOMAIN last_call.response.content
           \/ last_call.response.status_code >= 400
        /\ DOMAIN last_call.response.content \cap DetailFields # {}

\* no code in the query, and none read from the form body
NoCodeGiven(req) ==
    /\ falsy(req.query_code)
    /\ req.method = "POST" => req.form_code = Unreadable \/ falsy(req.form_code)

\* C16: a callback without an authorization code in the query or the form body
\* and without an authorize-step error is answered 400 with the error
\* missing_code; the token exchange is not called.
C16_MissingCodeRejected ==
    (/\ OAuthAnswered
     /\ NoCodeGiven(last_call.request)
     /\ falsy(last_call.request.error))
    => /\ last_call.response.status_code = 400
       /\ last_call.response.content =
             [error |-> "missing_code", detail |-> "No authorization code provided"]
       /\ ~last_call.response.exchange_called

\* a POST whose form cannot be read, against an exchange that would have raised
C16_Witness ==
    /\ OAuthAnswered
    /\ last_call.request.method = "POST"
    /\ last_call.request.query_code = ""
    /\ last_call.request.form_code = Unreadable
    /\ falsy(last_call.request.error)
    /\ exchange_raises(last_call.request.env)
    /\ last_call.response.content.error = "missing_code"

\* C17: join, leave, broadcast_to_meeting and debug_meetings exclude each other
\* over the whole mapping: one lock holder at most; a broadcast holds the lock
\* during each of its sends and its snapshot is still its meeting's set; while
\* the lock stays held the mapping does not change, and when it is released
\* the only change is the removal of members of the holder's snapshot from
\* the holder's meeting; debug_meetings answers with the ids and counts of the
\* one mapping it ran on.
C17_MutualExclusion ==
    [][/\ Cardinality(meeting_lock') <= 1
       /\ \A i \in Tasks : Sending(i)' =>
             /\ i \in meeting_lock'
             /\ task'[i].snapshot = clients_of(meeting_clients', task'[i].meeting_id)
       /\ (meeting_lock # {} /\ meeting_lock' # {}) =>
             meeting_lock' = meeting_lock /\ meeting_clients' = meeting_clients
       /\ (meeting_lock # {} /\ meeting_lock' = {}) =>
             \E i \in meeting_lock :
                /\ DOMAIN meeting_clients' = DOMAIN meeting_clients
                /\ \A m \in DOMAIN meeting_clients :
                      /\ meeting_clients'[m] \subseteq meeting_clients[m]
                      /\ m # task[i].meeting_id => meeting_clients'[m] = meeting_clients[m]
                      /\ meeting_clients[m] \ meeting_clients'[m] \subseteq task[i].snapshot
       /\ debug_result' # debug_result =>
             /\ meeting_lock = {}
             /\ meeting_clients' = meeting_clients
             /\ debug_result' = debug_meetings(meeting_clients)
             /\ debug_result'.active_meetings = DOMAIN debug_result'.connection_counts
      ]_vars

\* during a send of a broadcast, a member of its snapshot waits for the lock to
\* leave and another connection waits for it to join the same meeting
C17_Witness ==
    \E i \in Tasks, c \in Conns, d \in Conns :
        /\ Sending(i)
        /\ c \in task[i].snapshot /\ handler[c].pc = "CLOSING"
        /\ handler[d].pc = "JOINING" /\ handler[d].meeting_id = task[i].meeting_id

HandlerEnds(c) == handler[c].pc = "CLOSING" /\ handler'[c].pc = "CLOSED"

\* C18: the leave of a terminating handler takes its own connection out of the
\* mapping and changes nothing else: every other connection is a member of
\* the same sets as before and its handler is as before; no task and no
\* delivered message is touched.
C18_LeaveOnlyOwnMembership ==
    [][\A c \in Conns : HandlerEnds(c) =>
          /\ \A m \in DOMAIN meeting_clients' : c \notin meeting_clients'[m]
          /\ \A d \in Conns \ {c} :
                /\ handler'[d] = handler[d]
                /\ \A m \in MeetingIds :
                      d \in clients_of(meeting_clients', m)
                          <=> d \in clients_of(meeting_clients, m)
          /\ UNCHANGED <<task, inbox, meeting_lock>>]_vars

\* a handler has ended by a failed heartbeat or a receive error while a
\* sibling of the same meeting is still registered
C18_Witness ==
    \E c \in Conns, d \in Conns :
        /\ handler[c].pc = "CLOSED"
        /\ handler[c].exit \in {"send_error", "error"}
        /\ handler[d].pc \in {"OPEN", "HEARTBEAT"}
        /\ handler[d].meeting_id = handler[c].meeting_id
        /\ d \in clients_of(meeting_clients, handler[d].meeting_id)

BroadcastStarts(i) ==
    task[i].pc \in {"transcript_wait", "qna_wait"} /\ task'[i].pc # task[i].pc

\* C19: broadcast_to_meeting for a meeting id with no registered connection
\* returns in the step that takes the lock: no send is attempted, nothing is
\* delivered, the call does not raise, and the mapping is the same afterwards
\* (no entry is created for the id).
C19_EmptyBroadcastNoOp ==
    [][\A i \in Tasks :
          (BroadcastStarts(i) /\ clients_of(meeting_clients, task[i].meeting_id) = {})
          => /\ meeting_clients' = meeting_clients
             /\ inbox' = inbox
             /\ meeting_lock' = {}
             /\ task'[i].pc \in {"analyzing", "done", "polling"}
             /\ task'[i].cur = {} /\ task'[i].todo = {}
             /\ \A c \in Conns : task'[i].attempts[c] = 0]_vars

\* a transcript broadcast to an unknown meeting id has returned while another
\* meeting has a member
C19_Witness ==
    \E i \in Tasks, c \in Conns :
        /\ task[i].pc = "analyzing"
        /\ task[i].snapshot = {}
        /\ task[i].meeting_id \notin DOMAIN meeting_clients
        /\ handler[c].pc = "OPEN"
        /\ DOMAIN meeting_clients = {handler[c].meeting_id}

\* C20: a connection whose handler is CLOSED is a member of no meeting's set,
\* and no broadcast has a send to it in flight or still to make.
C20_ClosedStaysOut ==
    \A c \in Conns : handler[c].pc = "CLOSED" =>
        /\ \A m \in DOMAIN meeting_clients : c \notin meeting_clients[m]
        /\ \A i \in Tasks : c \notin task[i].cur \cup task[i].todo

\* a broadcast is sending in the meeting of a handler that has finished and
\* that received an earlier message
C20_Witness ==
    \E c \in Conns, i \in Tasks :
        /\ handler[c].pc = "CLOSED"
        /\ inbox[c] # <<>>
        /\ Sending(i)
        /\ task[i].meeting_id = handler[c].meeting_id

\* C21: a connection that a broadcast removed after a failed send is not
\* registered again: it is a member of no set, no broadcast has a send to it
\* in flight or still to make, and no snapshot taken since holds it, while its
\* handler, if still in its loop, goes on to its heartbeats when they are due.
C21_RemovedNeverReRegistered ==
    \A c \in reaped :
        /\ \A m \in MeetingIds : c \notin clients_of(meeting_clients, m)
        /\ \A i \in Tasks :
              /\ c \notin task[i].cur \cup task[i].todo
              /\ Sending(i) => c \notin task[i].snapshot
        /\ (LoopFree /\ handler[c].pc = "OPEN" /\ handler[c].timer = HEARTBEAT_TIMEOUT)
              => ENABLED RecvTimeout(c)

\* the qna broadcast is sending to a sibling while the connection its
\* transcript broadcast removed is being sent a heartbeat
C21_Witness ==
    \E c \in reaped, i \in Tasks :
        /\ handler[c].pc = "HEARTBEAT"
        /\ task[i].pc = "qna_send" /\ Sending(i)
        /\ task[i].meeting_id = handler[c].meeting_id
        /\ c \in task[i].first_snapshot
        /\ c \notin task[i].snapshot
====
